---- MODULE Spec2Model ----
(***************************************************************************)
(* Model of the SSE connection manager (SSEContextProvider, useSSE), its   *)
(* consumers (the widgets of the diagnostics app) and the browser runtime  *)
(* the manager runs on: the EventSource transports it creates, the         *)
(* timers it arms and the task queue on which React's re-render and the    *)
(* transports' events are run.                                             *)
(*                                                                         *)
(* Runtime model.  A handler runs to completion (one event loop, one       *)
(* handler at a time).  setInstanceId changes the provider's state in the  *)
(* handler that calls it and queues the re-render that shows the new value *)
(* to the consumers; the re-render and the effects it triggers run as one  *)
(* task.  The events of a transport (open, error, message) are queued when *)
(* they arrive from the network, which is after the transport was created. *)
(* The queue is run in order.  Environment signals (visibility, online,    *)
(* pagehide, beforeunload) and timers are run when they occur, ahead of    *)
(* whatever is queued.  An event of a transport that has been closed is    *)
(* dropped when its turn comes, as the EventSource standard prescribes.    *)
(*                                                                         *)
(* The SSE test server is modelled by the connections it serves: what each *)
(* request's closure holds (the id counter, the count of application       *)
(* records, its timers) and the lines it has written to the response.  Its *)
(* timers fire in any order a choice of intervalMs allows, the 20 s        *)
(* heartbeat after the 350 ms connected repeat.                            *)
(*                                                                         *)
(* Specifications: Spec (the manager, its consumers and the records of the *)
(* stream), FairSpec (Spec with the retry timer firing), ManagerSpec (the  *)
(* manager with the history of its environment signals) and ServerSpec     *)
(* (the server with one connection), TwoSpec (the server with two          *)
(* connections) and WidgetSpec (the handlers of the conformant widgets     *)
(* and the records delivered to them).                                     *)
(***************************************************************************)
EXTENDS Integers, Sequences, FiniteSets, TLC

\* ------------------------------------------------------------------ bounds
MaxTransports == 3      \* transports the manager may create in one run
MaxQueue      == 2      \* tasks that may wait in the task queue when an event arrives
MaxTime       == 2      \* clock values: 0 .. MaxTime
MaxEvents     == 3      \* firings of a connection's event ticker
MaxHeartbeats == 1      \* firings of a connection's heartbeat ticker
MaxRecords    == 3      \* records delivered to a widget's handler

\* --------------------------------------------------------------- constants
NULL       == 0         \* eventSourceRef.current / retryTimerRef.current = null
NoTime     == -1        \* hiddenAtRef.current = null
CONNECTING == 0         \* EventSource.readyState
OPEN       == 1
CLOSED     == 2
PaddingSpaces == 2048   \* " ".repeat(2048)
RetryMs       == 3000   \* retry: 3000
ListCap       == 20     \* .slice(0, 20)

\* backgroundThresholdMs: 0 (always reconnect) or a positive threshold
Thresholds == {0, 1}

\* the application event kinds
Kinds == {"task", "notification"}

Conformant == {"TasksWidget", "NotificationsWidget"}
Consumers  == Conformant \cup {"BrokenWidget"}

\* the event kinds each consumer's effect adds a listener for
KindsOf(c) ==
  CASE c = "TasksWidget"         -> {"task"}
    [] c = "NotificationsWidget" -> {"notification"}
    [] c = "BrokenWidget"        -> {"task", "notification"}

\* the dependency arrays of the consumers' effects
ConformantDeps == {"instanceId"}
BrokenWidgetDeps_withInstanceId == {"instanceId"}
BrokenWidgetDeps == {}
Deps(c) == IF c = "BrokenWidget" THEN BrokenWidgetDeps ELSE ConformantDeps

VARIABLES
  phase,            \* "init" (not mounted yet), "mounted", "unmounted"
  instanceId,       \* useState(0): the generation
  eventSourceRef,   \* the handle: NULL or the index of a transport in es
  retryTimerRef,    \* NULL or the id of the retry timer
  attemptCountRef,
  hiddenAtRef,      \* NoTime or the clock value recorded when hidden
  backgroundThresholdRef,
  es,               \* es[t]: readyState of the t-th transport created
  wire,             \* wire[t]: the connection of transport t as the network sees it:
                    \* "requested" after creation, "established" once the response
                    \* has arrived, "ended" once closed or failed
  timers,           \* the browser's active timeouts: records [id, delay]
  queue,            \* the task queue: the re-render and transport events
  visibilityState,  \* document.visibilityState
  now,              \* Date.now(), counted from the last time the page became visible
  observed,         \* observed[c]: the instanceId consumer c last rendered with
  boundTo,          \* boundTo[c]: the transport c's listeners are on, or NULL
  listeners,        \* listeners[c]: the transports on which a handler of c is
                    \* registered, one entry for each handler
  brokenMounted,    \* showBrokenWidget
  brokenBoundAt,    \* transports created when BrokenWidget's effect ran
  dispatch,         \* the record dispatched by the last step and the consumers
                    \* whose handlers ran for it, or NoDispatch
  genOf,            \* genOf[t]: the generation the connect() that created t produced
  failures,         \* transport errors since the last successful open
  awaitingRetry,    \* a transport error was handled and no transport created since
  hiddenSince,      \* NoTime or the clock value at the last hidden signal handled
  recording,        \* whether the history of environment signals is kept
  signal,           \* the environment signal the last step handled, or NoSignal
  tornDown,         \* a page-teardown signal has been handled
  conn,             \* the server: conn[c] is the state of connection c
  widget,           \* widget[w]: the state of conformant widget w
  delivery          \* the record the last step delivered to a widget's handler

clientVars == << phase, instanceId, eventSourceRef, retryTimerRef, attemptCountRef,
           hiddenAtRef, backgroundThresholdRef, es, wire, timers,
           queue, visibilityState, now, observed, boundTo, listeners, brokenMounted,
           brokenBoundAt, dispatch, genOf, genOf, failures, awaitingRetry,
           hiddenSince, recording, signal, tornDown >>

widgetVars == << widget, delivery >>

vars == << clientVars, conn, widgetVars >>

\* ------------------------------------------------------------- arithmetic
Min(a, b) == IF a <= b THEN a ELSE b

RECURSIVE Pow2(_)
Pow2(n) == IF n <= 0 THEN 1 ELSE 2 * Pow2(n - 1)

\* 1000 * Math.pow(2, e): for e < 0 the power is the fraction 1 / 2^(-e)
Scale(e) == IF e >= 0 THEN 1000 * Pow2(e) ELSE 1000 \div Pow2(-e)

\* Math.min(30_000, 1000 * Math.pow(2, Math.min(attempt - 1, 5)))
BackoffDelay(attempt) == Min(30000, Scale(Min(attempt - 1, 5)))

\* ------------------------------------------------- the manager's state
\* The part of the state the provider's helpers read and write, as a record,
\* so that a handler is the composition of the helpers it calls.
St == [ instanceId      |-> instanceId,
        eventSourceRef  |-> eventSourceRef,
        retryTimerRef   |-> retryTimerRef,
        attemptCountRef |-> attemptCountRef,
        hiddenAtRef     |-> hiddenAtRef,
        es              |-> es,
        wire            |-> wire,
        timers          |-> timers,
        queue           |-> queue,
        beacon          |-> FALSE ]     \* set when the handler calls sendBeacon

Apply(s) ==
  /\ instanceId'      = s.instanceId
  /\ eventSourceRef'  = s.eventSourceRef
  /\ retryTimerRef'   = s.retryTimerRef
  /\ attemptCountRef' = s.attemptCountRef
  /\ hiddenAtRef'     = s.hiddenAtRef
  /\ es'              = s.es
  /\ wire'            = s.wire
  /\ timers'          = s.timers
  /\ queue'           = s.queue

\* the tasks of the queue: React's re-render, and the events of transport t
CommitTask        == [type |-> "commit", t |-> 0, kind |-> ""]
OpenTask(t)       == [type |-> "open", t |-> t, kind |-> ""]
ErrorTask(t)      == [type |-> "error", t |-> t, kind |-> ""]
MessageTask(t, k) == [type |-> "message", t |-> t, kind |-> k]

NoDispatch == [t |-> 0, kind |-> "", to |-> {}]

\* The environment signal a step handled, with what the handler found and
\* did: whether the pagehide was persisted, whether the handler sent the
\* disconnect beacon, how long the page had been hidden (-1: no hidden signal
\* was handled), the readyState of the current transport (-1: the handle was
\* null) and whether a timeout was active.  This history is kept only in the
\* specification of the manager's signals (ManagerSpec).
NoSignal == [name |-> "", persisted |-> FALSE, beacon |-> FALSE, hiddenFor |-> -1,
             was |-> -1, timer |-> FALSE]

Signal(name, persisted, sent) ==
  IF ~recording THEN NoSignal ELSE
  [name      |-> name,
   persisted |-> persisted,
   beacon    |-> sent,
   hiddenFor |-> IF name = "visible" /\ hiddenSince # NoTime
                   THEN now - hiddenSince ELSE -1,
   was       |-> IF eventSourceRef = NULL THEN -1 ELSE es[eventSourceRef],
   timer     |-> timers # {}]

\* EventSource.close(): readyState CLOSED, the connection aborted
Close(s, t) == [s EXCEPT !.es[t] = CLOSED, !.wire[t] = "ended"]

\* window.setTimeout returns an id no active timeout has
SetTimeoutId(tm) == CHOOSE i \in 1..(Cardinality(tm) + 1) : \A x \in tm : x.id # i

\* window.clearTimeout(id)
ClearTimeout(tm, id) == {x \in tm : x.id # id}

clearRetryTimer_nothing(s) == s

clearRetryTimer_keepsTimeout(s) ==
  IF s.retryTimerRef # NULL THEN [s EXCEPT !.retryTimerRef = NULL] ELSE s

clearRetryTimer(s) ==
  IF s.retryTimerRef # NULL
    THEN [s EXCEPT !.timers = ClearTimeout(@, s.retryTimerRef),
                   !.retryTimerRef = NULL]
    ELSE s

closeCurrent_dropsRef(s) == [s EXCEPT !.eventSourceRef = NULL]

closeCurrent(s) ==
  IF s.eventSourceRef # NULL
    THEN [Close(s, s.eventSourceRef) EXCEPT !.eventSourceRef = NULL]
    ELSE s

\* new EventSourceCtor(url, ...): a transport in state CONNECTING
NewTransport(s) == [s EXCEPT !.es = Append(@, CONNECTING),
                             !.wire = Append(@, "requested")]

\* setInstanceId((id) => id + 1): the state changes and a re-render is queued
setInstanceId(s) == [s EXCEPT !.instanceId = @ + 1,
                              !.queue = Append(@, CommitTask)]

connect_lateNotify(s) ==
  LET s1 == clearRetryTimer(closeCurrent(s))
      s2 == [s1 EXCEPT !.attemptCountRef = @ + 1]
      s3 == NewTransport(s2)
  IN  [s3 EXCEPT !.eventSourceRef = Len(s3.es)]

connect(s) ==
  LET s1 == clearRetryTimer(closeCurrent(s))
      s2 == [s1 EXCEPT !.attemptCountRef = @ + 1]
      s3 == NewTransport(s2)
      s4 == [s3 EXCEPT !.eventSourceRef = Len(s3.es)]
  IN  setInstanceId(s4)

onopen_keepsAttempts(s, t) == s

onopen_notifies(s, t) == setInstanceId([s EXCEPT !.attemptCountRef = 0])

\* es.onopen of transport t
onopen(s, t) == [s EXCEPT !.attemptCountRef = 0]

onerror_notifies(s, t) ==
  LET s1 == [Close(s, t) EXCEPT !.eventSourceRef = NULL]
      s2 == clearRetryTimer(s1)
      id == SetTimeoutId(s2.timers)
  IN  setInstanceId([s2 EXCEPT
        !.timers = @ \cup {[id |-> id, delay |-> BackoffDelay(s1.attemptCountRef)]},
        !.retryTimerRef = id])

onerror_keepsRef(s, t) ==
  LET s1 == Close(s, t)
      s2 == clearRetryTimer(s1)
      id == SetTimeoutId(s2.timers)
  IN  [s2 EXCEPT
        !.timers = @ \cup {[id |-> id, delay |-> BackoffDelay(s1.attemptCountRef)]},
        !.retryTimerRef = id]

onerror_clearsLast(s, t) ==
  LET s1 == [Close(s, t) EXCEPT !.eventSourceRef = NULL]
      id == SetTimeoutId(s1.timers)
      s2 == [s1 EXCEPT
        !.timers = @ \cup {[id |-> id, delay |-> BackoffDelay(s1.attemptCountRef)]},
        !.retryTimerRef = id]
  IN  clearRetryTimer(s2)

onerror_noRetry(s, t) ==
  LET s1 == [Close(s, t) EXCEPT !.eventSourceRef = NULL]
  IN  clearRetryTimer(s1)

\* es.onerror of transport t
onerror(s, t) ==
  LET s1 == [Close(s, t) EXCEPT !.eventSourceRef = NULL]
      attempt == s1.attemptCountRef
      delay == BackoffDelay(attempt)
      s2 == clearRetryTimer(s1)
      id == SetTimeoutId(s2.timers)
  IN  [s2 EXCEPT !.timers = @ \cup {[id |-> id, delay |-> delay]},
                 !.retryTimerRef = id]

onHidden_disconnects(s, clock) == closeCurrent([s EXCEPT !.hiddenAtRef = clock])

\* onVisibilityChange, document.visibilityState = "hidden"
onHidden(s, clock) == [s EXCEPT !.hiddenAtRef = clock]

onVisible_positiveOnly(s, clock, threshold) ==
  LET h == s.eventSourceRef
      hiddenAt == s.hiddenAtRef
      s1 == [s EXCEPT !.hiddenAtRef = NoTime]
  IN  IF h = NULL \/ s1.es[h] = CLOSED
        THEN connect(clearRetryTimer(s1))
        ELSE IF hiddenAt # NoTime /\ clock - hiddenAt > threshold
               THEN connect(clearRetryTimer(closeCurrent(s1)))
               ELSE s1

onVisible_atThreshold(s, clock, threshold) ==
  LET h == s.eventSourceRef
      hiddenAt == s.hiddenAtRef
      s1 == [s EXCEPT !.hiddenAtRef = NoTime]
  IN  IF h = NULL \/ s1.es[h] = CLOSED
        THEN connect(clearRetryTimer(s1))
        ELSE IF hiddenAt # NoTime /\ (threshold = 0 \/ clock - hiddenAt >= threshold)
               THEN connect(clearRetryTimer(closeCurrent(s1)))
               ELSE s1

onVisible_needsHiddenAt(s, clock, threshold) ==
  LET hiddenAt == s.hiddenAtRef
      s1 == [s EXCEPT !.hiddenAtRef = NoTime]
  IN  IF hiddenAt # NoTime /\ (threshold = 0 \/ clock - hiddenAt > threshold)
        THEN connect(clearRetryTimer(closeCurrent(s1)))
        ELSE s1

\* onVisibilityChange, document.visibilityState = "visible"
onVisible(s, clock, threshold) ==
  LET h == s.eventSourceRef
      hiddenAt == s.hiddenAtRef
      s1 == [s EXCEPT !.hiddenAtRef = NoTime]
  IN  IF h = NULL \/ s1.es[h] = CLOSED
        THEN connect(clearRetryTimer(s1))
        ELSE IF hiddenAt # NoTime /\ (threshold = 0 \/ clock - hiddenAt > threshold)
               THEN connect(clearRetryTimer(closeCurrent(s1)))
               ELSE s1

onOnline_ifDisconnected(s) ==
  IF s.eventSourceRef = NULL THEN connect(clearRetryTimer(s)) ELSE s

onOnline(s) == connect(clearRetryTimer(closeCurrent(s)))

\* navigator.sendBeacon(`${host}/v1/sse/disconnect`)
sendBeacon(s) == [s EXCEPT !.beacon = TRUE]

onPageHide_always(s, persisted) == closeCurrent(sendBeacon(s))

onPageHide(s, persisted) == IF persisted THEN s ELSE closeCurrent(sendBeacon(s))

onBeforeUnload(s) == closeCurrent(sendBeacon(s))

Cleanup_keepsTimer(s) == closeCurrent(s)

\* the cleanup of the lifecycle effect
Cleanup(s) == closeCurrent(clearRetryTimer(s))

\* -------------------------------------------------------------- the server
\* JavaScript values.  A request header or query parameter is undefined or a
\* string.  A number is an integer n, NaN, Infinity, or 2^53 + n ("p53"): at
\* 2^53 and above a double no longer holds every integer.
Undefined == [typ |-> "undefined", text |-> ""]
Str(text) == [typ |-> "string", text |-> text]
\* a boolean and a number as JSON.stringify prints them
Bool(b) == [typ |-> "boolean", text |-> IF b THEN "true" ELSE "false"]
Num(n) == [typ |-> "number", text |-> ToString(n)]

Whole(n) == [k |-> "int", n |-> n]
P53(n) == [k |-> "p53", n |-> n]
NaN == [k |-> "nan", n |-> 0]
Infinity == [k |-> "inf", n |-> 0]

Digits == 0..9

\* Number(text), for the texts the model sends
Number(text) ==
  IF text = "" THEN Whole(0)
  ELSE IF \E n \in Digits : ToString(n) = text
         THEN Whole(CHOOSE n \in Digits : ToString(n) = text)
  ELSE IF text = "9007199254740992" THEN P53(0)
  ELSE IF text = "Infinity" THEN Infinity
  ELSE NaN

\* Number.isFinite(x)
IsFinite(x) == x.k \in {"int", "p53"}

\* String(x) of a finite number, as a template literal and JSON.stringify
\* print it
NumberText(x) ==
  IF x.k = "int" THEN ToString(x.n)
  ELSE IF x = P53(0) THEN "9007199254740992"
  ELSE IF x.k = "p53" THEN "9007199254740992+" \o ToString(x.n)
  ELSE "null"

\* x + 1 in double arithmetic: above 2^53 only even integers exist and the
\* sum is rounded to the nearest, ties to the even mantissa
Inc(x) ==
  IF x.k = "int" THEN Whole(x.n + 1)
  ELSE IF x.k = "p53" THEN (IF x.n % 4 = 0 THEN x ELSE P53(x.n + 2))
  ELSE x

\* the requests the model sends
Headers     == {Undefined, Str("2"), Str("abc"), Str("Infinity"),
                Str("9007199254740992")}
Queries     == {Undefined, Str("5"), Str("abc")}
CloseAfters == {Undefined, Str("1"), Str("2"), Str("abc")}
Heartbeats  == {Undefined, Str("0")}
Origins     == {Undefined, Str("https://app.example")}
Cookies     == {Undefined, Str("sid=abc"), Str("sid=xyz"), Str("sid=abc; theme=dark")}

\* a request: the Last-Event-ID header, the query parameters lastEventId,
\* closeAfter and heartbeat, the Origin header and the Cookie header
Req(h, q, ca, hbq, o, ck) ==
  [header |-> h, query |-> q, closeAfter |-> ca, heartbeat |-> hbq,
   origin |-> o, cookie |-> ck]

\* requests of a client that is not a browser (no Origin, no Cookie) with
\* every resume point and scenario knob, requests of a browser with every
\* Origin and Cookie, and a request with heartbeat=false
Requests ==
  {Req(h, q, ca, hbq, Undefined, Undefined) :
     h \in Headers, q \in Queries, ca \in CloseAfters, hbq \in Heartbeats}
  \cup {Req(Str("2"), Undefined, Str("1"), Undefined, o, ck) :
          o \in Origins, ck \in Cookies}
  \cup {Req(Undefined, Undefined, Str("1"), Str("false"), Undefined, Undefined)}

Conns == {1, 2}

parseLastEventId_queryFirst(h, q) ==
  LET n1 == IF h.typ = "string" THEN Number(h.text) ELSE NaN
      n2 == IF q.typ = "string" THEN Number(q.text) ELSE NaN
  IN  IF IsFinite(n2) THEN n2
      ELSE IF IsFinite(n1) THEN n1
      ELSE Whole(0)

\* parseLastEventId(req), h the Last-Event-ID header, q the lastEventId query
parseLastEventId(h, q) ==
  LET n1 == IF h.typ = "string" THEN Number(h.text) ELSE NaN
      n2 == IF q.typ = "string" THEN Number(q.text) ELSE NaN
  IN  IF IsFinite(n1) THEN n1
      ELSE IF IsFinite(n2) THEN n2
      ELSE Whole(0)

\* The lines of the stream.  A line has a field name f and, by field, a
\* number, a text or the JSON payload of a data line.
\* buildRequestDebug(req): of the request headers the snapshot copies, the
\* model sends Origin; the other copied headers are the same in every request
buildRequestDebug_echoesCookie(r) ==
  [origin          |-> r.origin,
   hasCookieHeader |-> Bool(r.cookie.typ = "string" /\ Len(r.cookie.text) > 0),
   cookieBytes     |-> Num(IF r.cookie.typ = "string" THEN Len(r.cookie.text) ELSE 0),
   cookie          |-> r.cookie,
   queryLastEventId |-> r.query,
   queryCloseAfter  |-> r.closeAfter,
   queryHeartbeat   |-> r.heartbeat]

buildRequestDebug(r) ==
  [origin          |-> r.origin,
   hasCookieHeader |-> Bool(r.cookie.typ = "string" /\ Len(r.cookie.text) > 0),
   cookieBytes     |-> Num(IF r.cookie.typ = "string" THEN Len(r.cookie.text) ELSE 0),
   queryLastEventId |-> r.query,
   queryCloseAfter  |-> r.closeAfter,
   queryHeartbeat   |-> r.heartbeat]

\* a payload without a request snapshot
NoRequest == [origin |-> Undefined]

NoData == [type |-> "", lastEventId |-> "", clientLastEventId |-> "",
           request |-> NoRequest, connectionId |-> ""]
Line(f, num, text, data) == [f |-> f, num |-> num, text |-> text, data |-> data]

Blank            == Line("blank", Whole(0), "", NoData)
CommentLine(c)   == Line("comment", Whole(0), c, NoData)
\* `:${" ".repeat(2048)}\n`: num is the length of the line in bytes
PaddingLine      == Line("comment", Whole(1 + PaddingSpaces + 1), "padding", NoData)
RetryLine        == Line("retry", Whole(RetryMs), "", NoData)
IdLine(id)       == Line("id", id, NumberText(id), NoData)
EventLine(event) == Line("event", Whole(0), event, NoData)
DataLine(data)   == Line("data", Whole(0), "", data)
\* res.end(): the end of the stream
EndMark          == Line("end", Whole(0), "", NoData)

\* a connection the server has not accepted yet
\* `c-${Date.now().toString(36)}-${Math.random().toString(36).slice(2, 10)}`
NewConnectionId == "c-lx3k9-4f7q2m8z"

\* the CORS headers of a response; "" is a header that is not set
CorsHeaders == {"Access-Control-Allow-Origin", "Access-Control-Allow-Credentials",
                "Vary"}

Idle ==
  [ state              |-> "idle",       \* "idle", "streaming", "closed"
    header             |-> Undefined,    \* the request: Last-Event-ID,
    query              |-> Undefined,    \*   ?lastEventId=
    req                |-> Req(Undefined, Undefined, Undefined, Undefined,
                               Undefined, Undefined),
    headers            |-> [n \in CorsHeaders |-> ""],
    connectionId       |-> "",
    clientLastEventId  |-> Whole(0),
    nextId             |-> Whole(0),
    closeAfter         |-> Whole(0),
    sentBusinessEvents |-> 0,
    connectedRepeat    |-> FALSE,        \* the timeout is pending
    hb                 |-> FALSE,        \* the interval is active
    timer              |-> FALSE,        \* the interval is active
    writableEnded      |-> FALSE,
    out                |-> << >> ]       \* the lines written to the response

\* res.setHeader(name, value)
setHeader(k, name, value) == [k EXCEPT !.headers[name] = value]

\* app.use(cors({origin: true, credentials: true, ...})), for a request that
\* is not a preflight.  With origin: true the cors package reflects the Origin
\* of the request into Access-Control-Allow-Origin when the request has one
\* and adds Origin to Vary; with credentials: true it sets
\* Access-Control-Allow-Credentials on every response.
corsMiddleware(k, r) ==
  LET k1 == IF r.origin.typ = "string" /\ r.origin.text # ""
              THEN setHeader(k, "Access-Control-Allow-Origin", r.origin.text)
              ELSE k
      k2 == setHeader(k1, "Vary", "Origin")
  IN  setHeader(k2, "Access-Control-Allow-Credentials", "true")

\* the streaming CORS headers of the connect handler
streamCors(k, r) ==
  LET origin == IF r.origin.typ = "undefined" THEN "" ELSE r.origin.text
  IN  IF origin # ""
        THEN setHeader(setHeader(setHeader(k,
               "Access-Control-Allow-Origin", origin),
               "Access-Control-Allow-Credentials", "true"),
               "Vary", "Origin")
        ELSE setHeader(k, "Access-Control-Allow-Origin", "*")

\* res.write(chunk): the lines of the chunk are appended to the response.  (A
\* write after res.end() is an error in Node; the line is recorded all the
\* same, so that a write after the end shows in the stream.)
Write(k, lines) == [k EXCEPT !.out = @ \o lines]

\* const payload = { connectionId, ...data, ...timestamps() }
Payload(k, data) == [data EXCEPT !.connectionId = k.connectionId]

writeEvent_eventFirst(k, event, data) ==
  LET id == Inc(k.nextId)
      k1 == [k EXCEPT !.nextId = id]
      k2 == Write(k1, << EventLine(event) >>)
      k3 == Write(k2, << IdLine(id) >>)
  IN  Write(k3, << DataLine(Payload(k, data)), Blank >>)

\* writeEvent(event, data): const id = ++nextId, then three writes
writeEvent(k, event, data) ==
  LET id == Inc(k.nextId)
      k1 == [k EXCEPT !.nextId = id]
      k2 == Write(k1, << IdLine(id) >>)
      k3 == Write(k2, << EventLine(event) >>)
  IN  Write(k3, << DataLine(Payload(k, data)), Blank >>)

writeComment_oneNewline(k, comment) == Write(k, << CommentLine(comment) >>)

\* writeComment(res, comment)
writeComment(k, comment) == Write(k, << CommentLine(comment), Blank >>)

\* the payload of the first connected record and of its repeat
ConnectedData(k) ==
  [type |-> "connected",
   lastEventId |-> NumberText(k.clientLastEventId),
   clientLastEventId |-> NumberText(k.clientLastEventId),
   request |-> buildRequestDebug(k.req),
   connectionId |-> ""]

ConnectedRepeatData_echoesNextId(k) ==
  [type |-> "connected",
   lastEventId |-> "",
   clientLastEventId |-> NumberText(k.nextId),
   request |-> buildRequestDebug(k.req),
   connectionId |-> ""]

ConnectedRepeatData(k) ==
  [type |-> "connected",
   lastEventId |-> "",
   clientLastEventId |-> NumberText(k.clientLastEventId),
   request |-> buildRequestDebug(k.req),
   connectionId |-> ""]

BusinessData(event) ==
  [type |-> event, lastEventId |-> "", clientLastEventId |-> "",
   request |-> NoRequest, connectionId |-> ""]

\* Number(req.query.closeAfter ?? 0)
CloseAfterOf(ca) == IF ca.typ = "undefined" THEN Whole(0) ELSE Number(ca.text)

HeartbeatOn_always(hbq) == TRUE

\* String(req.query.heartbeat ?? "1") !== "0"
HeartbeatOn(hbq) == (IF hbq.typ = "undefined" THEN "1" ELSE hbq.text) # "0"

connectHandler_noPadding(k, r) ==
  LET k0 == streamCors(k, r)
      k2 == Write(k0, << RetryLine, Blank >>)
      clientLastEventId == parseLastEventId(r.header, r.query)
      k3 == [k2 EXCEPT !.state = "streaming",
                       !.header = r.header, !.query = r.query, !.req = r,
                       !.connectionId = NewConnectionId,
                       !.clientLastEventId = clientLastEventId,
                       !.nextId = clientLastEventId]
      k4 == writeEvent(k3, "connected", ConnectedData(k3))
  IN  [k4 EXCEPT !.connectedRepeat = TRUE,
                 !.closeAfter = CloseAfterOf(r.closeAfter),
                 !.hb = HeartbeatOn(r.heartbeat),
                 !.sentBusinessEvents = 0,
                 !.timer = TRUE]

\* app.get("/v1/sse/connect", (req, res) => ...)
connectHandler(k, r) ==
  LET k0 == streamCors(k, r)
      k1 == Write(k0, << PaddingLine >>)
      k2 == Write(k1, << RetryLine, Blank >>)
      clientLastEventId == parseLastEventId(r.header, r.query)
      k3 == [k2 EXCEPT !.state = "streaming",
                       !.header = r.header, !.query = r.query, !.req = r,
                       !.connectionId = NewConnectionId,
                       !.clientLastEventId = clientLastEventId,
                       !.nextId = clientLastEventId]
      k4 == writeEvent(k3, "connected", ConnectedData(k3))
  IN  [k4 EXCEPT !.connectedRepeat = TRUE,
                 !.closeAfter = CloseAfterOf(r.closeAfter),
                 !.hb = HeartbeatOn(r.heartbeat),
                 !.sentBusinessEvents = 0,
                 !.timer = TRUE]

connectedRepeatCallback_unguarded(k) ==
  writeEvent(k, "connected", ConnectedRepeatData(k))

\* the callback of the connectedRepeat timeout
connectedRepeatCallback(k) ==
  IF ~k.writableEnded
    THEN writeEvent(k, "connected", ConnectedRepeatData(k))
    ELSE k

\* closeAfter > 0 && sentBusinessEvents >= closeAfter
CapReached(k) ==
  /\ k.closeAfter.k \in {"inf", "p53"} \/ (k.closeAfter.k = "int" /\ k.closeAfter.n > 0)
  /\ k.closeAfter.k = "int" /\ k.sentBusinessEvents >= k.closeAfter.n

\* res.end()
End(k) == [Write(k, << EndMark >>) EXCEPT !.writableEnded = TRUE]

\* the callback of the event ticker
timerCallback(k, isTask) ==
  LET event == IF isTask THEN "task" ELSE "notification"
      k1 == writeEvent(k, event, BusinessData(event))
      k2 == [k1 EXCEPT !.sentBusinessEvents = @ + 1]
  IN  IF CapReached(k2)
        THEN End([k2 EXCEPT !.timer = FALSE, !.hb = FALSE])
        ELSE k2

onClose_keepsRepeat(k) == [k EXCEPT !.state = "closed",
                                    !.timer = FALSE, !.hb = FALSE]

\* req.on("close", ...)
onClose(k) == [k EXCEPT !.state = "closed", !.connectedRepeat = FALSE,
                        !.timer = FALSE, !.hb = FALSE]

\* the heartbeat comments written on connection k
Beats(k) == Cardinality({i \in DOMAIN k.out : k.out[i] = CommentLine("ping")})

\* -------------------------------------------------------------- the widgets
\* The data of a record, as the text of evt.data.
TaskText(id) == "{\"type\":\"task\",\"taskId\":\"" \o id \o "\"}"
NotificationText(id) ==
  "{\"type\":\"notification\",\"notificationId\":\"" \o id \o "\"}"

\* the records the model delivers: well-formed objects of both kinds, texts
\* that are not JSON, and JSON texts that are not objects
Payloads ==
  {TaskText("t-1"), TaskText("t-2"), NotificationText("n-1"),
   "{\"type\":", "", "null", "0", "5"}

\* JavaScript values JSON.parse returns, and Thrown for the SyntaxError
JsObject(type, id) == [typ |-> "object", type |-> type, id |-> id, n |-> 0]
JsNull             == [typ |-> "null", type |-> "", id |-> "", n |-> 0]
JsNumber(n)        == [typ |-> "number", type |-> "", id |-> "", n |-> n]
Thrown             == [typ |-> "thrown", type |-> "", id |-> "", n |-> 0]

\* JSON.parse(text), for the texts the model delivers
JSONParse(text) ==
  CASE text = TaskText("t-1")         -> JsObject("task", "t-1")
    [] text = TaskText("t-2")         -> JsObject("task", "t-2")
    [] text = NotificationText("n-1") -> JsObject("notification", "n-1")
    [] text = "null"                  -> JsNull
    [] text = "0"                     -> JsNumber(0)
    [] text = "5"                     -> JsNumber(5)
    [] OTHER                          -> Thrown

\* try { return JSON.parse(data) } catch { return null }
safeJsonParse(text) ==
  IF JSONParse(text) = Thrown THEN JsNull ELSE JSONParse(text)

\* !data
Falsy(v) == v.typ = "null" \/ (v.typ = "number" /\ v.n = 0)

\* data.type: undefined ("") for a value that is not an object
TypeOf(v) == IF v.typ = "object" THEN v.type ELSE ""

\* the type a widget's handler accepts
WidgetType(w) == IF w = "TasksWidget" THEN "task" ELSE "notification"

\* a widget after its first render: useState([]), useState(0), useState(0);
\* threw: a handler of the widget ended with an exception
Fresh == [items |-> << >>, eventCount |-> 0, errorCount |-> 0, threw |-> FALSE]

NoDelivery == [to |-> "", data |-> ""]

\* [item, ...prev].slice(0, 20)
Prepend(item, prev) ==
  LET all == << item >> \o prev
  IN  IF Len(all) <= ListCap THEN all ELSE SubSeq(all, 1, ListCap)

handler_unsafeParse(w, s, text) ==
  LET data == JSONParse(text)
  IN  IF data = Thrown THEN [s EXCEPT !.threw = TRUE]
      ELSE IF Falsy(data) \/ TypeOf(data) # WidgetType(w)
        THEN [s EXCEPT !.errorCount = @ + 1]
      ELSE [s EXCEPT !.eventCount = @ + 1, !.items = Prepend(data.id, @)]

\* the handler of widget w, its state s, for a record with data text
handler(w, s, text) ==
  LET data == safeJsonParse(text)
  IN  IF Falsy(data) \/ TypeOf(data) # WidgetType(w)
        THEN [s EXCEPT !.errorCount = @ + 1]
        ELSE [s EXCEPT !.eventCount = @ + 1, !.items = Prepend(data.id, @)]

\* ------------------------------------------------------------------- Init
Start ==
  /\ phase = "init"
  /\ instanceId = 0
  /\ eventSourceRef = NULL
  /\ retryTimerRef = NULL
  /\ attemptCountRef = 0
  /\ hiddenAtRef = NoTime
  /\ backgroundThresholdRef \in Thresholds
  /\ es = << >>
  /\ wire = << >>
  /\ timers = {}
  /\ queue = << >>
  /\ visibilityState \in {"visible", "hidden"}
  /\ now = 0
  /\ observed = [c \in Consumers |-> 0]
  /\ boundTo = [c \in Consumers |-> NULL]
  /\ listeners = [c \in Consumers |-> << >>]
  /\ brokenMounted = FALSE
  /\ brokenBoundAt = -1
  /\ dispatch = NoDispatch
  /\ genOf = << >>
  /\ failures = 0
  /\ awaitingRetry = FALSE
  /\ signal = NoSignal
  /\ hiddenSince = NoTime
  /\ tornDown = FALSE
  /\ conn = [c \in Conns |-> Idle]
  /\ widget = [w \in Conformant |-> Fresh]
  /\ delivery = NoDelivery

Init == Start /\ recording = FALSE

\* a handler's result is taken only while the run stays within MaxTransports
Within(s) == Len(s.es) <= MaxTransports

\* no record is dispatched by this step
Quiet == dispatch' = NoDispatch

\* the step handles no environment signal
Internal == signal' = NoSignal /\ UNCHANGED << hiddenSince, recording, tornDown >>

\* History kept for the properties: the generation each transport was created
\* with, and whether a transport error still waits for its recovery (the
\* creation of a transport, with the generation increased).
Recovery ==
  /\ genOf' = IF Len(es') > Len(es) THEN Append(genOf, instanceId') ELSE genOf
  /\ awaitingRetry' = (awaitingRetry /\ ~(Len(es') > Len(es) /\ instanceId' > instanceId))

\* The effect of a consumer: the cleanup of its previous run removes the old
\* listener, then `const es = esRef.current; if (!es) return;
\* es.addEventListener(kind, handler)`: the listener is on the handle read.
Subscribe_openOnly(h) == IF h # NULL /\ es[h] = OPEN THEN h ELSE NULL

Subscribe(h) == h

RemoveListener_forgets(L, old) == L

\* the cleanup of the effect's previous run, es.removeEventListener(kind,
\* handler): the handler that run registered on transport old is removed
RemoveListener(L, old) ==
  IF \E i \in DOMAIN L : L[i] = old
    THEN LET i == CHOOSE j \in DOMAIN L : L[j] = old
         IN  SubSeq(L, 1, i - 1) \o SubSeq(L, i + 1, Len(L))
    ELSE L

\* a run of the effect of a consumer whose last run bound to old and whose
\* handlers are registered on L, with the handle h: the cleanup of the last
\* run, then es.addEventListener(kind, handler) unless the handle is null
Effect(L, old, h) ==
  LET cleaned == RemoveListener(L, old)
  IN  IF Subscribe(h) = NULL THEN cleaned ELSE Append(cleaned, Subscribe(h))

\* ---------------------------------------------------------------- actions
\* First render: the children's effects run before the provider's, read a null
\* handle and bind nothing; then the lifecycle effect calls connect().
Mount ==
  /\ UNCHANGED << conn, widgetVars >>
  /\ Internal
  /\ phase = "init"
  /\ phase' = "mounted"
  /\ Apply(connect(St))
  /\ observed' = [c \in Consumers |-> IF c \in Conformant THEN instanceId ELSE observed[c]]
  /\ boundTo' = [c \in Consumers |->
                   IF c \in Conformant THEN Subscribe(eventSourceRef) ELSE boundTo[c]]
  /\ listeners' = [c \in Consumers |->
                     IF c \in Conformant
                       THEN Effect(listeners[c], boundTo[c], eventSourceRef)
                       ELSE listeners[c]]
  /\ Quiet /\ Recovery
  /\ UNCHANGED << backgroundThresholdRef, visibilityState, now, brokenMounted,
                  brokenBoundAt, failures >>

\* The provider unmounts: its cleanup, and the cleanups of its consumers.
Unmount ==
  /\ UNCHANGED << conn, widgetVars >>
  /\ Internal
  /\ phase = "mounted"
  /\ phase' = "unmounted"
  /\ Apply(Cleanup(St))
  /\ boundTo' = [c \in Consumers |-> NULL]
  /\ listeners' = [c \in Consumers |-> RemoveListener(listeners[c], boundTo[c])]
  /\ brokenMounted' = FALSE
  /\ brokenBoundAt' = -1
  /\ Quiet /\ Recovery
  /\ UNCHANGED << backgroundThresholdRef, visibilityState, now, observed, failures >>

VisibilityHidden ==
  /\ UNCHANGED << conn, widgetVars >>
  /\ signal' = Signal("hidden", FALSE, onHidden(St, now).beacon)
  /\ hiddenSince' = now
  /\ UNCHANGED << recording, tornDown >>
  /\ phase = "mounted"
  /\ visibilityState = "visible"
  /\ visibilityState' = "hidden"
  /\ Apply(onHidden(St, now))
  /\ Quiet /\ Recovery
  /\ UNCHANGED << phase, backgroundThresholdRef, now, observed, boundTo, listeners,
                  brokenMounted, brokenBoundAt, failures >>

VisibilityVisible ==
  /\ UNCHANGED << conn, widgetVars >>
  /\ signal' = Signal("visible", FALSE, onVisible(St, now, backgroundThresholdRef).beacon)
  /\ hiddenSince' = NoTime
  /\ UNCHANGED << recording, tornDown >>
  /\ phase = "mounted"
  /\ visibilityState = "hidden"
  /\ visibilityState' = "visible"
  /\ LET s == onVisible(St, now, backgroundThresholdRef)
     IN  Within(s) /\ Apply(s)
  /\ now' = 0
  /\ Quiet /\ Recovery
  /\ UNCHANGED << phase, backgroundThresholdRef, observed, boundTo, listeners,
                  brokenMounted, brokenBoundAt, failures >>

Online ==
  /\ UNCHANGED << conn, widgetVars >>
  /\ signal' = Signal("online", FALSE, onOnline(St).beacon)
  /\ UNCHANGED << hiddenSince, recording, tornDown >>
  /\ phase = "mounted"
  /\ LET s == onOnline(St) IN Within(s) /\ Apply(s)
  /\ Quiet /\ Recovery
  /\ UNCHANGED << phase, backgroundThresholdRef, visibilityState, now, observed,
                  boundTo, listeners, brokenMounted, brokenBoundAt, failures >>

PageHide ==
  /\ UNCHANGED << conn, widgetVars >>
  /\ phase = "mounted"
  /\ \E persisted \in BOOLEAN :
       /\ Apply(onPageHide(St, persisted))
       /\ signal' = Signal("pagehide", persisted, onPageHide(St, persisted).beacon)
       /\ tornDown' = (tornDown \/ (recording /\ ~persisted))
  /\ UNCHANGED << hiddenSince, recording >>
  /\ Quiet /\ Recovery
  /\ UNCHANGED << phase, backgroundThresholdRef, visibilityState, now, observed,
                  boundTo, listeners, brokenMounted, brokenBoundAt, failures >>

BeforeUnload ==
  /\ UNCHANGED << conn, widgetVars >>
  /\ signal' = Signal("beforeunload", FALSE, onBeforeUnload(St).beacon)
  /\ tornDown' = (tornDown \/ recording)
  /\ UNCHANGED << hiddenSince, recording >>
  /\ phase = "mounted"
  /\ Apply(onBeforeUnload(St))
  /\ Quiet /\ Recovery
  /\ UNCHANGED << phase, backgroundThresholdRef, visibilityState, now, observed,
                  boundTo, listeners, brokenMounted, brokenBoundAt, failures >>

\* An active timeout expires: the browser retires it and runs its callback,
\* connectRef.current().
RetryTimerFires ==
  /\ UNCHANGED << conn, widgetVars >>
  /\ Internal
  /\ \E tm \in timers :
       LET s == connect([St EXCEPT !.timers = @ \ {tm}])
       IN  Within(s) /\ Apply(s)
  /\ Quiet /\ Recovery
  /\ UNCHANGED << phase, backgroundThresholdRef, visibilityState, now, observed,
                  boundTo, listeners, brokenMounted, brokenBoundAt, failures >>

\* Time passes while the page is in the background (the clock is read only to
\* measure how long the page was hidden).
Tick ==
  /\ UNCHANGED << conn, widgetVars >>
  /\ Internal
  /\ visibilityState = "hidden"
  /\ hiddenAtRef # NoTime
  /\ now < MaxTime
  /\ now' = now + 1
  /\ Quiet
  /\ UNCHANGED << phase, instanceId, eventSourceRef, retryTimerRef, attemptCountRef,
                  hiddenAtRef, backgroundThresholdRef, es, wire, timers, queue,
                  visibilityState, observed, boundTo, listeners, brokenMounted, brokenBoundAt,
                  genOf, failures, awaitingRetry >>

\* The anti-pattern demo is toggled on: BrokenWidget mounts and its effect
\* (deps []) binds to whatever the handle is now.
ShowBrokenWidget ==
  /\ UNCHANGED << conn, widgetVars >>
  /\ Internal
  /\ phase = "mounted"
  /\ ~brokenMounted
  /\ brokenMounted' = TRUE
  /\ brokenBoundAt' = Len(es)
  /\ boundTo' = [boundTo EXCEPT !["BrokenWidget"] = Subscribe(eventSourceRef)]
  /\ listeners' = [listeners EXCEPT !["BrokenWidget"] =
                      Effect(@, boundTo["BrokenWidget"], eventSourceRef)]
  /\ observed' = [observed EXCEPT !["BrokenWidget"] =
                     IF "instanceId" \in Deps("BrokenWidget") THEN instanceId ELSE @]
  /\ Quiet
  /\ UNCHANGED << phase, instanceId, eventSourceRef, retryTimerRef, attemptCountRef,
                  hiddenAtRef, backgroundThresholdRef, es, wire, timers, queue,
                  visibilityState, now, genOf, failures, awaitingRetry >>

\* ------------------------------------------------------------ the network
Live(t) == t \in 1..Len(es) /\ es[t] # CLOSED

Room == Len(queue) < MaxQueue

Arrives(t, from, to, task) ==
  /\ UNCHANGED << conn, widgetVars >>
  /\ Internal
  /\ Live(t) /\ wire[t] = from
  /\ wire' = [wire EXCEPT ![t] = to]
  /\ queue' = Append(queue, task)
  /\ Quiet
  /\ UNCHANGED << phase, instanceId, eventSourceRef, retryTimerRef, attemptCountRef,
                  hiddenAtRef, backgroundThresholdRef, es, timers, visibilityState,
                  now, observed, boundTo, listeners, brokenMounted, brokenBoundAt, genOf, failures,
                  awaitingRetry >>

\* the response of transport t arrives: its connection is established
ArriveOpen ==
  /\ Room
  /\ \E t \in 1..Len(es) : Arrives(t, "requested", "established", OpenTask(t))

\* a record of some kind arrives on the established connection of transport t
ArriveMessage ==
  /\ Room
  /\ \E t \in 1..Len(es), k \in Kinds :
       Arrives(t, "established", "established", MessageTask(t, k))

\* the connection of transport t fails, or the server ends it
ArriveError ==
  /\ Room
  /\ \E t \in 1..Len(es), from \in {"requested", "established"} :
       Arrives(t, from, "ended", ErrorTask(t))

\* --------------------------------------------------------- the task queue
Head1 == Head(queue)
Popped == [St EXCEPT !.queue = Tail(queue)]

\* Consumer c re-runs its effect in this re-render: instanceId is among the
\* effect's deps and has changed since c rendered last.
Rebinds(c) ==
  /\ "instanceId" \in Deps(c)
  /\ observed[c] # instanceId
  /\ (c \in Conformant \/ brokenMounted)


\* React re-renders the consumers of the context and runs their effects.
RunCommit ==
  /\ UNCHANGED << conn, widgetVars >>
  /\ Internal
  /\ queue # << >> /\ Head1.type = "commit"
  /\ phase = "mounted"
  /\ Apply(Popped)
  /\ observed' = [c \in Consumers |-> IF Rebinds(c) THEN instanceId ELSE observed[c]]
  /\ boundTo' = [c \in Consumers |->
                   IF Rebinds(c) THEN Subscribe(eventSourceRef) ELSE boundTo[c]]
  /\ listeners' = [c \in Consumers |->
                     IF Rebinds(c)
                       THEN Effect(listeners[c], boundTo[c], eventSourceRef)
                       ELSE listeners[c]]
  /\ Quiet
  /\ UNCHANGED << phase, backgroundThresholdRef, visibilityState, now, brokenMounted,
                  brokenBoundAt, genOf, failures, awaitingRetry >>

RunOpen ==
  /\ UNCHANGED << conn, widgetVars >>
  /\ Internal
  /\ queue # << >> /\ Head1.type = "open" /\ Live(Head1.t)
  /\ Apply(onopen([Popped EXCEPT !.es[Head1.t] = OPEN], Head1.t))
  /\ failures' = 0
  /\ Quiet
  /\ UNCHANGED << phase, backgroundThresholdRef, visibilityState, now, observed,
                  boundTo, listeners, brokenMounted, brokenBoundAt, genOf, awaitingRetry >>

RunError ==
  /\ UNCHANGED << conn, widgetVars >>
  /\ Internal
  /\ queue # << >> /\ Head1.type = "error" /\ Live(Head1.t)
  /\ Apply(onerror(Popped, Head1.t))
  /\ failures' = failures + 1
  /\ awaitingRetry' = TRUE
  /\ Quiet
  /\ UNCHANGED << phase, backgroundThresholdRef, visibilityState, now, observed,
                  boundTo, listeners, brokenMounted, brokenBoundAt, genOf >>

\* A record is dispatched to the listeners registered on its transport for its
\* event kind.
RunMessage ==
  /\ UNCHANGED << conn, widgetVars >>
  /\ Internal
  /\ queue # << >> /\ Head1.type = "message" /\ Live(Head1.t)
  /\ Apply(Popped)
  /\ dispatch' = [t |-> Head1.t, kind |-> Head1.kind,
                  to |-> {c \in Consumers : boundTo[c] = Head1.t
                                            /\ Head1.kind \in KindsOf(c)}]
  /\ UNCHANGED << phase, backgroundThresholdRef, visibilityState, now, observed,
                  boundTo, listeners, brokenMounted, brokenBoundAt, genOf, failures, awaitingRetry >>

\* The task's target is gone: an event of a closed transport, or a re-render
\* of an unmounted tree.
DropTask ==
  /\ UNCHANGED << conn, widgetVars >>
  /\ Internal
  /\ queue # << >>
  /\ IF Head1.type = "commit" THEN phase # "mounted" ELSE ~Live(Head1.t)
  /\ Apply(Popped)
  /\ Quiet
  /\ UNCHANGED << phase, backgroundThresholdRef, visibilityState, now, observed,
                  boundTo, listeners, brokenMounted, brokenBoundAt, genOf, failures, awaitingRetry >>

Next ==
  \/ Mount
  \/ Unmount
  \/ VisibilityHidden
  \/ VisibilityVisible
  \/ Online
  \/ PageHide
  \/ BeforeUnload
  \/ RetryTimerFires
  \/ Tick
  \/ ShowBrokenWidget
  \/ ArriveOpen
  \/ ArriveMessage
  \/ ArriveError
  \/ RunCommit
  \/ RunOpen
  \/ RunError
  \/ RunMessage
  \/ DropTask

Spec == Init /\ [][Next]_vars

\* The retry timer is a browser timeout: once armed it fires unless cleared.
FairSpec == Spec /\ WF_vars(RetryTimerFires)

\* ----------------------------------------- the manager and its signals
\* The manager with the history of the environment signals kept.  The
\* manager reads nothing of its consumers: the records of the stream and the
\* BrokenWidget toggle, which change the consumers' side only, are left out.
ManagerInit == Start /\ recording = TRUE

ManagerNext ==
  \/ Mount
  \/ Unmount
  \/ VisibilityHidden
  \/ VisibilityVisible
  \/ Online
  \/ PageHide
  \/ BeforeUnload
  \/ RetryTimerFires
  \/ Tick
  \/ ArriveOpen
  \/ ArriveError
  \/ RunCommit
  \/ RunOpen
  \/ RunError
  \/ DropTask

ManagerSpec == ManagerInit /\ [][ManagerNext]_vars

\* ------------------------------------------------------------ the server
\* A step of the server changes connection c only.
Serve(c, k) ==
  conn' = [conn EXCEPT ![c] = k] /\ UNCHANGED << clientVars, widgetVars >>

\* a client requests GET /v1/sse/connect with one of the requests R: the
\* request passes the cors middleware and reaches the handler
Accept(c, R) ==
  /\ conn[c].state = "idle"
  /\ \E r \in R : Serve(c, connectHandler(corsMiddleware(conn[c], r), r))

Connect(c) == Accept(c, Requests)

\* 350 ms after the request the connectedRepeat timeout expires
ConnectedRepeatFires(c) ==
  /\ conn[c].connectedRepeat
  /\ Serve(c, connectedRepeatCallback([conn[c] EXCEPT !.connectedRepeat = FALSE]))

\* the heartbeat interval (20 s) expires, after the 350 ms timeout
HeartbeatFires(c) ==
  /\ conn[c].hb
  /\ ~conn[c].connectedRepeat
  /\ Beats(conn[c]) < MaxHeartbeats
  /\ Serve(c, writeComment(conn[c], "ping"))

\* the event interval expires; Math.random() < 0.5 picks the kind
TimerFires(c) ==
  /\ conn[c].timer
  /\ conn[c].sentBusinessEvents < MaxEvents
  /\ \E isTask \in BOOLEAN : Serve(c, timerCallback(conn[c], isTask))

\* the request's close event: the client went away, or the connection closed
\* after res.end()
ReqClose(c) ==
  /\ conn[c].state = "streaming"
  /\ Serve(c, onClose(conn[c]))

\* the server with one connection
Single == {1}

ServerNext ==
  \/ \E c \in Single : Connect(c)
  \/ \E c \in Single : ConnectedRepeatFires(c)
  \/ \E c \in Single : HeartbeatFires(c)
  \/ \E c \in Single : TimerFires(c)
  \/ \E c \in Single : ReqClose(c)

\* the server alone: the page is not mounted
ServerInit == Init /\ backgroundThresholdRef = 0 /\ visibilityState = "visible"

ServerSpec == ServerInit /\ [][ServerNext]_vars

\* The server with two connections open at the same time (two browsers): both
\* send a resume point, an Origin and a Cookie and ask for one application
\* record.
TwoRequests ==
  {Req(h, Undefined, Str("1"), Undefined, Str("https://app.example"), ck) :
     h \in {Str("2"), Str("9007199254740992")}, ck \in Cookies}

TwoNext ==
  \/ \E c \in Conns : Accept(c, TwoRequests)
  \/ \E c \in Conns : ConnectedRepeatFires(c)
  \/ \E c \in Conns : HeartbeatFires(c)
  \/ \E c \in Conns : TimerFires(c)
  \/ \E c \in Conns : ReqClose(c)

TwoSpec == ServerInit /\ [][TwoNext]_vars

\* ----------------------------------------------------------- the widgets
\* a record of the kind widget w listens for arrives, with any data
Deliver(w, text) ==
  /\ widget[w].eventCount + widget[w].errorCount < MaxRecords
  /\ widget' = [widget EXCEPT ![w] = handler(w, @, text)]
  /\ delivery' = [to |-> w, data |-> text]
  /\ UNCHANGED << clientVars, conn >>

WidgetNext == \E w \in Conformant, text \in Payloads : Deliver(w, text)

WidgetSpec == ServerInit /\ [][WidgetNext]_vars

\* ------------------------------------------------------------- properties
LiveTransports == {t \in 1..Len(es) : es[t] # CLOSED}

\* the step dispatches a record
Dispatches == dispatch' # NoDispatch

\* C1: the generation changes only in a step that creates a transport, every
\* step that creates a transport increases it by exactly 1, and no other step
\* (open, error, close, visibility, page teardown, unmount) changes it.
C1_GenerationChangesOnlyOnCreation ==
  [][ /\ (instanceId' # instanceId =>
            instanceId' = instanceId + 1 /\ Len(es') = Len(es) + 1)
      /\ (Len(es') # Len(es) =>
            Len(es') = Len(es) + 1 /\ instanceId' = instanceId + 1) ]_vars

\* after an open, an error, a hidden signal and the unmount, the generation is
\* the number of transports created
C1_Witness ==
  /\ phase = "unmounted" /\ instanceId = 2 /\ Len(es) = 2
  /\ failures = 1 /\ hiddenAtRef # NoTime

\* C2: a transport that is still connecting is the handle and is already
\* counted by the generation, which did not wait for the open event.
C2_ConnectingAlreadyCounted ==
  \A t \in 1..Len(es) :
    es[t] = CONNECTING => eventSourceRef = t /\ instanceId = genOf[t] /\ instanceId = t

\* the second transport, not yet open
C2_Witness ==
  /\ Len(es) = 2 /\ eventSourceRef = 2 /\ es[2] = CONNECTING /\ wire[2] = "requested"

\* C3: a conformant consumer that re-subscribed at generation g holds either no
\* transport or the transport created by the connect() that produced g.
C3_HandleMatchesGeneration ==
  \A c \in Conformant :
    boundTo[c] # NULL => genOf[boundTo[c]] = observed[c]

\* both conformant consumers re-subscribed to the second transport
C3_Witness ==
  \A c \in Conformant : boundTo[c] = 2 /\ observed[c] = 2

\* C4: a record dispatched on the current transport reaches every conformant
\* consumer of its kind whose re-subscription for the current generation is
\* complete.
C4_NoLossAfterResubscription ==
  [][ Dispatches =>
        \A c \in Conformant :
          ( /\ observed[c] = instanceId
            /\ dispatch'.t = eventSourceRef
            /\ dispatch'.kind \in KindsOf(c) ) => c \in dispatch'.to ]_vars

\* a record of the third transport delivered to a conformant consumer
C4_Witness ==
  /\ dispatch.t = 3 /\ eventSourceRef = 3
  /\ \E c \in Conformant : c \in dispatch.to /\ observed[c] = instanceId

\* C5: whenever a record is dispatched, every conformant consumer has its
\* listener on the record's transport.
C5_BoundBeforeFirstDispatch ==
  [][ Dispatches => \A c \in Conformant : boundTo[c] = dispatch'.t ]_vars

\* a record dispatched on a transport created by a reconnect
C5_Witness ==
  /\ dispatch.t = 2 /\ dispatch.to # {}
  /\ \A c \in Conformant : boundTo[c] = 2

\* C6: BrokenWidget receives no record of a transport created after its effect
\* ran, while the conformant consumer of the record's kind receives it.
C6_BrokenWidgetMissesNewGeneration ==
  [][ (Dispatches /\ brokenMounted /\ dispatch'.t > brokenBoundAt) =>
        /\ "BrokenWidget" \notin dispatch'.to
        /\ \A c \in Conformant : dispatch'.kind \in KindsOf(c) => c \in dispatch'.to ]_vars

\* BrokenWidget bound the first transport; a record of the second is
\* dispatched to a conformant consumer only
C6_Witness ==
  /\ brokenMounted /\ brokenBoundAt = 1 /\ boundTo["BrokenWidget"] = 1
  /\ dispatch.t = 2 /\ dispatch.to # {} /\ "BrokenWidget" \notin dispatch.to

\* C7: at most one transport created by the manager is live.
C7_AtMostOneLiveTransport == Cardinality(LiveTransports) <= 1

\* a live transport after two earlier ones were replaced
C7_Witness == Len(es) = 3 /\ LiveTransports = {3} /\ eventSourceRef = 3

\* C8: the retry after the k-th consecutive failure since the last successful
\* open is scheduled with delay min(30000, 1000 * 2^min(k-1, 5)).
C8_ClaimedDelay(k) == Min(30000, 1000 * Pow2(Min(k - 1, 5)))

C8_DelayOfKthFailure ==
  \A tm \in timers : tm.delay = C8_ClaimedDelay(failures)

\* C9: at most one retry timer is pending.
C9_AtMostOneRetryTimer == Cardinality(timers) <= 1

\* the retry of a second failure is pending
C9_Witness == Cardinality(timers) = 1 /\ failures = 2 /\ retryTimerRef # NULL

\* C10: a transport error is eventually followed by the creation of a
\* transport, with the generation increased, unless the provider unmounts.
C10_ErrorLeadsToReconnect ==
  (awaitingRetry /\ phase = "mounted" /\ Len(es) < MaxTransports)
    ~> (~awaitingRetry \/ phase = "unmounted")

\* a transport created by the retry timer after an error
C10_Witness ==
  /\ phase = "mounted" /\ failures = 1 /\ ~awaitingRetry
  /\ eventSourceRef = 2 /\ attemptCountRef = 2

\* the step handles the environment signal `name`
Handles(name) == signal'.name = name

\* the step creates a transport, which becomes the handle, and increases the
\* generation by exactly 1
Reconnects ==
  /\ Len(es') = Len(es) + 1
  /\ es'[Len(es')] = CONNECTING
  /\ eventSourceRef' = Len(es')
  /\ instanceId' = instanceId + 1

\* the current transport is non-null and not closed
HandleLive == eventSourceRef # NULL /\ es[eventSourceRef] # CLOSED

\* C11: with backgroundThresholdMs = 0, a visible signal that follows a hidden
\* signal forces a reconnect and increases the generation by exactly 1,
\* whatever the hidden duration and the state of the transport.
C11_ZeroThresholdAlwaysReconnects ==
  [][ (Handles("visible") /\ backgroundThresholdRef = 0 /\ hiddenSince # NoTime)
        => Reconnects ]_vars

\* threshold 0, hidden for 0 ms with an open transport: the visible signal
\* created the second transport
C11_Witness ==
  /\ signal.name = "visible" /\ signal.hiddenFor = 0 /\ signal.was = OPEN
  /\ backgroundThresholdRef = 0 /\ instanceId = 2 /\ eventSourceRef = 2

\* C12: with a threshold T > 0 and a current transport that is non-null and not
\* closed, a visible signal that follows a hidden signal forces a reconnect iff
\* the hidden duration is strictly greater than T; otherwise the handle, the
\* generation, the attempt counter and the retry timer are unchanged.
C12_ReconnectIffLongerThanThreshold ==
  [][ (/\ Handles("visible")
       /\ backgroundThresholdRef > 0
       /\ hiddenSince # NoTime
       /\ HandleLive)
        => IF now - hiddenSince > backgroundThresholdRef
             THEN Reconnects
             ELSE UNCHANGED << eventSourceRef, instanceId, attemptCountRef,
                               retryTimerRef, timers, es >> ]_vars

\* hidden for exactly the threshold with an open transport: nothing changed
C12_Witness ==
  /\ signal.name = "visible" /\ signal.hiddenFor = backgroundThresholdRef
  /\ backgroundThresholdRef > 0 /\ signal.was = OPEN
  /\ eventSourceRef = 1 /\ instanceId = 1 /\ es[1] = OPEN

\* C13: on a visible signal with the handle null or the transport closed, the
\* pending retry timer is cancelled and a transport is created in the same
\* step, whatever the threshold, the hidden duration and the hidden timestamp.
C13_VisibleWithoutTransportReconnects ==
  [][ (Handles("visible") /\ ~HandleLive)
        => Reconnects /\ timers' = {} /\ retryTimerRef' = NULL ]_vars

\* a visible signal in Backoff, with a positive threshold and no hidden
\* timestamp recorded: the retry was cancelled and a transport created
C13_Witness ==
  /\ signal.name = "visible" /\ signal.was = -1 /\ signal.timer
  /\ signal.hiddenFor = -1 /\ backgroundThresholdRef > 0
  /\ timers = {} /\ eventSourceRef = 2 /\ es[2] = CONNECTING

\* C14: an online signal discards the current transport, cancels the pending
\* retry timer and creates a transport in the same step; the generation
\* increases by exactly 1 and exactly one transport is live afterwards.
C14_OnlineAlwaysReconnects ==
  [][ Handles("online")
        => /\ Reconnects
           /\ timers' = {} /\ retryTimerRef' = NULL
           /\ (eventSourceRef # NULL => es'[eventSourceRef] = CLOSED)
           /\ LiveTransports' = {Len(es')} ]_vars

\* an online signal with an open transport replaced it
C14_Witness ==
  /\ signal.name = "online" /\ signal.was = OPEN
  /\ es[1] = CLOSED /\ eventSourceRef = 2 /\ instanceId = 2

\* C15: a page-teardown signal (pagehide not persisted, beforeunload) sends the
\* beacon, closes the transport and nulls the handle, and afterwards the
\* manager creates no transport (unless a later environment signal asks).
C15_NoReconnectAfterTeardown ==
  [][ /\ (tornDown' /\ ~tornDown) =>
             signal'.beacon /\ eventSourceRef' = NULL /\ LiveTransports' = {}
      /\ (tornDown /\ signal'.name = "") => Len(es') = Len(es) ]_vars

\* C16: the unmount leaves no retry timer, no live transport and a null handle,
\* and after it no transport is created and the generation does not change.
C16_NothingAfterUnmount ==
  [][ /\ phase' = "unmounted" =>
            /\ timers' = {} /\ retryTimerRef' = NULL
            /\ eventSourceRef' = NULL /\ LiveTransports' = {}
      /\ phase = "unmounted" =>
            Len(es') = Len(es) /\ instanceId' = instanceId ]_vars

\* unmounted in Backoff, the retry of the second transport's error cancelled
C16_Witness ==
  /\ phase = "unmounted" /\ awaitingRetry /\ Len(es) = 2 /\ failures = 2
  /\ timers = {} /\ queue = << >>

\* ------------------------------------------------- properties of the server
\* the connections the server has accepted
Accepted == {c \in Conns : conn[c].state # "idle"}

\* the places of the stream of connection c whose line is an event line of an
\* application record (task, notification), an id line, the end of the stream
BusinessAt(c) ==
  {i \in DOMAIN conn[c].out :
     conn[c].out[i].f = "event" /\ conn[c].out[i].text \in Kinds}
IdsAt(c) == {i \in DOMAIN conn[c].out : conn[c].out[i].f = "id"}
EndAt(c) == {i \in DOMAIN conn[c].out : conn[c].out[i].f = "end"}

\* C17: with closeAfter = N > 0 at most N application records are written, the
\* stream is ended in the step that writes the N-th (right after its blank
\* line) and only then, connected records and heartbeat comments are not
\* counted, and nothing is written after the end.
C17_CapEndsStreamAfterNthRecord ==
  \A c \in Accepted :
    LET out == conn[c].out
        N == conn[c].closeAfter
    IN  (N.k = "int" /\ N.n > 0) =>
          /\ Cardinality(BusinessAt(c)) <= N.n
          /\ (EndAt(c) # {}) <=> (Cardinality(BusinessAt(c)) = N.n)
          /\ conn[c].writableEnded <=> (EndAt(c) # {})
          /\ EndAt(c) # {} =>
                /\ EndAt(c) = {Len(out)}
                /\ out[Len(out) - 1] = Blank
                /\ out[Len(out) - 2].f = "data"
                /\ out[Len(out) - 2].data.type \in Kinds

\* closeAfter = 2: the stream ended after two application records, with two
\* connected records and a heartbeat comment written before
C17_Witness ==
  /\ conn[1].closeAfter = Whole(2) /\ conn[1].writableEnded
  /\ Cardinality(BusinessAt(1)) = 2
  /\ Cardinality(IdsAt(1)) = 4
  /\ Beats(conn[1]) = 1
  /\ conn[1].out[Len(conn[1].out)] = EndMark

\* x + 1 in the integers
C18_Plus1(x) == [x EXCEPT !.n = @ + 1]

\* C18: the first named record of a connection has id resume point + 1 and
\* every later named record has an id exactly 1 greater than the one before.
C18_IdsConsecutive ==
  \A c \in Accepted :
    LET out == conn[c].out
    IN  \A i \in IdsAt(c) :
          LET before == {j \in IdsAt(c) : j < i}
              prev == IF before = {} THEN conn[c].clientLastEventId
                      ELSE out[CHOOSE j \in before : \A j2 \in before : j2 <= j].num
          IN  out[i].num = C18_Plus1(prev)

\* the number a header or query value parses to
C19_Parsed(v) == IF v.typ = "string" THEN Number(v.text) ELSE NaN

C19_ResumePoint(h, q) ==
  IF IsFinite(C19_Parsed(h)) THEN C19_Parsed(h)
  ELSE IF IsFinite(C19_Parsed(q)) THEN C19_Parsed(q)
  ELSE Whole(0)

\* the data lines of connected records in the stream of connection c
C19_ConnectedAt(c) ==
  {i \in DOMAIN conn[c].out :
     conn[c].out[i].f = "data" /\ conn[c].out[i].data.type = "connected"}

\* C19: the resume point is the Last-Event-ID header if it parses to a finite
\* number, else the lastEventId query parameter if that does, else 0, and the
\* lastEventId of the first connected record reads back as that number.
C19_ResumePointEchoed ==
  \A c \in Accepted :
    /\ conn[c].clientLastEventId = C19_ResumePoint(conn[c].header, conn[c].query)
    /\ C19_ConnectedAt(c) # {}
    /\ LET first == CHOOSE i \in C19_ConnectedAt(c) :
                       \A j \in C19_ConnectedAt(c) : i <= j
       IN  Number(conn[c].out[first].data.lastEventId)
             = C19_ResumePoint(conn[c].header, conn[c].query)

\* a header that is no number and a query parameter that is one
C19_Witness ==
  /\ conn[1].header = Str("abc") /\ conn[1].query = Str("5")
  /\ conn[1].clientLastEventId = Whole(5)
  /\ conn[1].out[6].data.lastEventId = "5"
  /\ Cardinality(C19_ConnectedAt(1)) = 2

\* C20: the stream of a connection starts with the padding comment of at least
\* 2048 bytes, then the retry hint, then the first connected record, all
\* before any application record; the retry hint is written once.
C20_PreambleOrder ==
  \A c \in Accepted :
    LET out == conn[c].out
        retries == {i \in DOMAIN out : out[i].f = "retry"}
        connected == {i \in DOMAIN out : out[i] = EventLine("connected")}
    IN  /\ Len(out) >= 1
        /\ out[1].f = "comment" /\ out[1].num.n >= 2048
        /\ Cardinality(retries) = 1
        /\ connected # {}
        /\ \A r \in retries :
              /\ 1 < r
              /\ \A i \in connected \cup IdsAt(c) \cup BusinessAt(c) : r < i
        /\ \A b \in BusinessAt(c) : \E i \in connected : i < b

\* an application record written after the preamble
C20_Witness ==
  /\ Len(conn[1].out) >= 9
  /\ conn[1].out[1] = PaddingLine /\ conn[1].out[2] = RetryLine
  /\ conn[1].out[5] = EventLine("connected")
  /\ conn[1].out[9] = EventLine("task")

\* C21: once the request's close event of a connection has run, the event
\* ticker, the heartbeat ticker and the connected-repeat timeout of that
\* connection are cancelled, and nothing more is ever written on it.
C21_ClosedConnectionIsSilent ==
  [][\A c \in Conns :
       /\ conn'[c].state = "closed"
            => (~conn'[c].connectedRepeat /\ ~conn'[c].timer /\ ~conn'[c].hb)
       /\ conn[c].state = "closed" => conn'[c] = conn[c]]_vars

\* the client went away right after the first connected record: no repeat, no
\* heartbeat and no application record, and the stream not ended by the server
C21_Witness ==
  /\ conn[1].state = "closed" /\ ~conn[1].writableEnded
  /\ conn[1].closeAfter = Whole(0)
  /\ Cardinality(IdsAt(1)) = 1
  /\ Beats(conn[1]) = 0 /\ BusinessAt(1) = {}
  /\ ~conn[1].connectedRepeat /\ ~conn[1].timer /\ ~conn[1].hb

\* a step on one connection leaves every other connection as it was: its next
\* id, its count of application records, its timers and its stream
C22_OneConnectionPerStep ==
  \A c \in Conns :
    conn'[c] # conn[c] => \A d \in Conns \ {c} : conn'[d] = conn[d]

\* the ids written on connection c, in the order of the stream
C22_Ids(c) ==
  LET at == IdsAt(c)
      nth(n) == CHOOSE i \in at : Cardinality({j \in at : j < i}) = n - 1
  IN  [n \in 1..Cardinality(at) |-> conn[c].out[nth(n)].num]

C22_Consecutive(c) ==
  LET ids == C22_Ids(c)
  IN  \A n \in DOMAIN ids :
        /\ ids[n].k = "int"
        /\ ids[n].n = (IF n = 1 THEN conn[c].clientLastEventId.n ELSE ids[n - 1].n) + 1

\* C22: two connections open at the same time have independent id sequences,
\* counts of application records and timers: a step on one (a record written,
\* a close) changes nothing of the other, and the ids of each connection stay
\* consecutive under every interleaving of the timers of the two.
C22_ConnectionsIndependent ==
  [][/\ C22_OneConnectionPerStep
     /\ \A c \in Conns : conn'[c].state # "idle" => C22_Consecutive(c)']_vars

\* C23: no stream response carries Access-Control-Allow-Origin: * together
\* with Access-Control-Allow-Credentials: true.  A request with an Origin
\* header gets that origin echoed, credentials true and Vary: Origin; a request
\* without one gets the wildcard and no credentials header.
C23_NoWildcardWithCredentials ==
  \A c \in Accepted :
    LET hs == conn[c].headers
        o == conn[c].req.origin
    IN  /\ ~(hs["Access-Control-Allow-Origin"] = "*"
              /\ hs["Access-Control-Allow-Credentials"] = "true")
        /\ o.typ = "string"
             => /\ hs["Access-Control-Allow-Origin"] = o.text
                /\ hs["Access-Control-Allow-Credentials"] = "true"
                /\ hs["Vary"] = "Origin"
        /\ o.typ = "undefined"
             => /\ hs["Access-Control-Allow-Origin"] = "*"
                /\ hs["Access-Control-Allow-Credentials"] = ""

\* the request snapshots in the connected records of connection c
C24_Snapshots(c) ==
  {conn[c].out[i].data.request :
     i \in {j \in DOMAIN conn[c].out :
              conn[c].out[j].f = "data" /\ conn[c].out[j].data.type = "connected"}}

\* the requests of c and d differ in the contents of the Cookie header at most
C24_SameButCookieContents(c, d) ==
  /\ [conn[c].req EXCEPT !.cookie = Undefined]
       = [conn[d].req EXCEPT !.cookie = Undefined]
  /\ conn[c].req.cookie.typ = conn[d].req.cookie.typ
  /\ Len(conn[c].req.cookie.text) = Len(conn[d].req.cookie.text)

\* C24: the request snapshot depends on the Cookie header only through its
\* presence and its length: two requests that differ only in the contents of a
\* cookie of the same length get the same snapshot, and the value of the
\* cookie appears in no line of the stream.
C24_CookieContentsNotEchoed ==
  /\ \A c \in Accepted, d \in Accepted :
        C24_SameButCookieContents(c, d) => C24_Snapshots(c) = C24_Snapshots(d)
  /\ \A c \in Accepted :
        conn[c].req.cookie.typ = "string"
          => \A i \in DOMAIN conn[c].out :
               LET line == conn[c].out[i]
               IN  /\ line.text # conn[c].req.cookie.text
                   /\ \A f \in DOMAIN line.data.request :
                        line.data.request[f].text # conn[c].req.cookie.text

\* two browsers with the same request but the cookies sid=abc and sid=xyz:
\* both connected records carry the same snapshot, cookie present, 7 long
C24_Witness ==
  /\ conn[1].req.cookie = Str("sid=abc") /\ conn[2].req.cookie = Str("sid=xyz")
  /\ conn[1].req.header = conn[2].req.header
  /\ C24_Snapshots(1) = C24_Snapshots(2)
  /\ \E s \in C24_Snapshots(1) :
        s.hasCookieHeader = Bool(TRUE) /\ s.cookieBytes = Num(7)

\* the records that are valid JSON and have the type of widget w
C25_ValidFor(w) ==
  IF w = "TasksWidget" THEN {TaskText("t-1"), TaskText("t-2")}
  ELSE {NotificationText("n-1")}

\* the item stored for a valid record
C25_Item(text) ==
  CASE text = TaskText("t-1") -> "t-1"
    [] text = TaskText("t-2") -> "t-2"
    [] text = NotificationText("n-1") -> "n-1"

\* C25: a record delivered to a conformant widget whose data is not valid JSON
\* or has not the widget's type adds exactly 1 to the widget's error counter,
\* changes neither its event counter nor its items, and the handler does not
\* throw; a valid record adds 1 to the event counter and is stored in front,
\* whatever was delivered before.
C25_InvalidRecordCountsAsError ==
  [][\A w \in Conformant :
       delivery'.to = w =>
         LET text == delivery'.data
             s == widget[w]
             s2 == widget'[w]
         IN  /\ ~s2.threw
             /\ text \notin C25_ValidFor(w)
                  => /\ s2.errorCount = s.errorCount + 1
                     /\ s2.eventCount = s.eventCount
                     /\ s2.items = s.items
             /\ text \in C25_ValidFor(w)
                  => /\ s2.eventCount = s.eventCount + 1
                     /\ s2.errorCount = s.errorCount
                     /\ s2.items = << C25_Item(text) >> \o s.items
             /\ s2.eventCount = Len(s2.items)
             /\ \A w2 \in Conformant \ {w} : widget'[w2] = widget[w2]]_vars

\* TasksWidget got a task, then a text that is not JSON, then another task:
\* one error, two records counted and stored, the newer first
C25_Witness ==
  /\ widget["TasksWidget"].items = << "t-2", "t-1" >>
  /\ widget["TasksWidget"].eventCount = 2
  /\ widget["TasksWidget"].errorCount = 1
  /\ delivery = [to |-> "TasksWidget", data |-> TaskText("t-2")]
  /\ ~widget["TasksWidget"].threw

\* C26: the attempt counter equals the number of transport errors since the
\* last successful open (0 right after an open); a forced reconnect, which is
\* no failure, does not increase it.
C26_AttemptsAreFailures == attemptCountRef = failures

\* the step runs the open handler of the transport at the head of the queue
C27_Opens ==
  /\ queue # << >> /\ Head(queue).type = "open"
  /\ es[Head(queue).t] = CONNECTING /\ es'[Head(queue).t] = OPEN

\* C27: when a transport opens, the attempt counter is reset to 0 and nothing
\* else of the manager changes: the handle, the generation, the retry timer
\* and the other transports stay as they were.
C27_OpenResetsAttemptsOnly ==
  [][C27_Opens =>
       /\ attemptCountRef' = 0
       /\ UNCHANGED << eventSourceRef, instanceId, retryTimerRef, timers,
                       hiddenAtRef, wire >>
       /\ queue' = Tail(queue)
       /\ es' = [es EXCEPT ![Head(queue).t] = OPEN]]_vars

\* the second transport, created by a reconnect, has opened: the counter,
\* 2 before, is 0, the handle and the generation are those of the reconnect
C27_Witness ==
  /\ Len(es) = 2 /\ es[2] = OPEN /\ es[1] = CLOSED
  /\ attemptCountRef = 0 /\ failures = 0
  /\ eventSourceRef = 2 /\ instanceId = 2
  /\ timers = {} /\ signal = NoSignal /\ recording

\* the step runs the error handler of the transport at the head of the queue
C28_Fails ==
  /\ queue # << >> /\ Head(queue).type = "error"
  /\ es[Head(queue).t] # CLOSED /\ failures' = failures + 1

\* C28: when a transport reports an error, the transport is closed, the handle
\* is null, the generation is unchanged and exactly one retry timer is pending
\* afterwards.
C28_ErrorClosesAndSchedulesOneRetry ==
  [][C28_Fails =>
       /\ es'[Head(queue).t] = CLOSED
       /\ eventSourceRef' = NULL
       /\ instanceId' = instanceId
       /\ Cardinality(timers') = 1
       /\ \E tm \in timers' : tm.id = retryTimerRef']_vars

\* the first transport opened and then failed: closed, no handle, the
\* generation still 1, one retry timer
C28_Witness ==
  /\ Len(es) = 1 /\ es[1] = CLOSED /\ wire[1] = "ended"
  /\ eventSourceRef = NULL /\ instanceId = 1
  /\ failures = 1 /\ attemptCountRef = 0
  /\ Cardinality(timers) = 1 /\ retryTimerRef # NULL
  /\ phase = "mounted" /\ recording /\ ~tornDown

\* C29: whenever a retry timer is pending the handle is null, and every step
\* that creates a transport leaves no retry timer pending.
C29_NoTimerBesideTransport ==
  [][/\ timers' # {} => eventSourceRef' = NULL
     /\ Len(es') > Len(es) => timers' = {}]_vars

\* an online signal arrived while a retry timer was pending and no transport
\* existed: a transport was created and the timer is gone
C29_Witness ==
  /\ signal.name = "online" /\ signal.timer /\ signal.was = -1
  /\ timers = {} /\ retryTimerRef = NULL
  /\ eventSourceRef = Len(es) /\ es[Len(es)] = CONNECTING

C31_ZeroThresholdReconnectsOnEveryVisible ==
  [][ (Handles("visible") /\ backgroundThresholdRef = 0) => Reconnects ]_vars

\* C32: a visibility-hidden signal records the hidden timestamp and nothing
\* else: the handle, the transports' states, the generation, the attempt
\* counter and the retry timer are unchanged.
C32_HiddenOnlyRecordsTime ==
  [][Handles("hidden") =>
       /\ hiddenAtRef' = now
       /\ UNCHANGED << eventSourceRef, es, wire, instanceId, attemptCountRef,
                       retryTimerRef, timers, queue >>]_vars

\* the page was hidden while the first transport was open
C32_Witness ==
  /\ signal.name = "hidden" /\ signal.was = OPEN
  /\ hiddenAtRef = 0 /\ visibilityState = "hidden"
  /\ eventSourceRef = 1 /\ es[1] = OPEN /\ instanceId = 1

\* C33: a pagehide signal with persisted = true changes nothing: no beacon is
\* sent, no transport is closed, and the handle, the generation, the attempt
\* counter and the retry timer are unchanged.
C33_PersistedPageHideIsNoOp ==
  [][(Handles("pagehide") /\ signal'.persisted) =>
       /\ ~signal'.beacon
       /\ UNCHANGED << eventSourceRef, es, wire, instanceId, attemptCountRef,
                       retryTimerRef, timers, hiddenAtRef, queue >>]_vars

\* the page went into the back/forward cache with its first transport open
C33_Witness ==
  /\ signal.name = "pagehide" /\ signal.persisted /\ ~signal.beacon
  /\ signal.was = OPEN /\ ~tornDown
  /\ eventSourceRef = 1 /\ es[1] = OPEN /\ instanceId = 1

\* the comment lines in the stream of connection c
C34_CommentsAt(c) == {i \in DOMAIN conn[c].out : conn[c].out[i].f = "comment"}

C35_NamedRecordIsThreeLines ==
  \A c \in Accepted :
    LET out == conn[c].out
    IN  \A i \in DOMAIN out :
          /\ out[i].f = "id"
               => /\ i + 3 <= Len(out)
                  /\ out[i + 1].f = "event"
                  /\ out[i + 2].f = "data"
                  /\ out[i + 3] = Blank
                  /\ i + 4 <= Len(out) => out[i + 4] # Blank
          /\ out[i].f = "event" => (i > 1 /\ out[i - 1].f = "id")
          /\ out[i].f = "data" => (i > 2 /\ out[i - 1].f = "event")

\* two connected records, a heartbeat comment and an application record, in
\* one stream
C35_Witness ==
  /\ Cardinality(IdsAt(1)) = 3 /\ Cardinality(BusinessAt(1)) = 1
  /\ Beats(conn[1]) = 1
  /\ conn[1].out[Len(conn[1].out)] = Blank
  /\ conn[1].out[Len(conn[1].out) - 1].f = "data"

\* the payloads of the connected records in the stream of connection k
C36_Connected(k) ==
  {i \in DOMAIN k.out : k.out[i].f = "data" /\ k.out[i].data.type = "connected"}

\* C36: a connection emits the connected record at most twice: once in the
\* connect handler, and once more when the 350 ms timeout expires, if and only
\* if the stream has not been ended at the cap by then; a disconnect cancels
\* the timeout.  Both records carry the same connection identifier and the
\* same echoed resume point.
C36_ConnectedAtMostTwice ==
  [][\A c \in Conns :
       LET k == conn[c]
           k2 == conn'[c]
           n == Cardinality(C36_Connected(k))
           n2 == Cardinality(C36_Connected(k2))
       IN  /\ IF k.state = "idle" /\ k2.state # "idle"
                THEN n2 = 1 /\ k2.connectedRepeat
                ELSE IF k.connectedRepeat /\ ~k2.connectedRepeat
                        /\ k2.state = "streaming"
                  THEN n2 = n + (IF k.writableEnded THEN 0 ELSE 1)
                  ELSE n2 = n
           /\ k2.state = "closed" => ~k2.connectedRepeat
           /\ n2 <= 2
           /\ \A i \in C36_Connected(k2) :
                 /\ k2.out[i].data.connectionId = k2.connectionId
                 /\ k2.connectionId # ""
                 /\ k2.out[i].data.clientLastEventId
                      = NumberText(k2.clientLastEventId)]_vars

\* resumed at 2: the connected record and, after an application record, its
\* repeat, both with resume point 2 and the identifier of the connection
C36_Witness ==
  /\ conn[1].header = Str("2") /\ conn[1].state = "streaming"
  /\ Cardinality(C36_Connected(conn[1])) = 2
  /\ Cardinality(BusinessAt(1)) = 1
  /\ \A i \in C36_Connected(conn[1]) :
        /\ conn[1].out[i].data.clientLastEventId = "2"
        /\ conn[1].out[i].data.connectionId = NewConnectionId
  /\ conn[1].out[Len(conn[1].out) - 1].data.type = "connected"

\* the heartbeat parameter of the request of connection c is not "0"
C37_Enabled(c) == conn[c].req.heartbeat # Str("0")

\* C37: heartbeat comments are written on a connection iff its heartbeat
\* parameter is not "0": with heartbeat=0 the padding is the only comment ever
\* written; with heartbeats enabled the heartbeat ticker runs while the stream
\* is open and is stopped once the stream is ended at the cap or the client
\* disconnects, and no heartbeat is written after the end of the stream.
C37_HeartbeatsIffEnabled ==
  \A c \in Accepted :
    LET out == conn[c].out
        pings == {i \in DOMAIN out : out[i].f = "comment" /\ i > 1}
    IN  /\ ~C37_Enabled(c) => pings = {}
        /\ conn[c].hb <=> (/\ C37_Enabled(c)
                            /\ conn[c].state = "streaming"
                            /\ ~conn[c].writableEnded)
        /\ \A i \in pings : \A e \in EndAt(c) : i < e
        /\ Beats(conn[c]) = Cardinality(pings)

\* heartbeats enabled by default: one was written, then the cap ended the
\* stream and stopped the ticker
C37_Witness ==
  /\ conn[1].req.heartbeat = Undefined /\ conn[1].closeAfter = Whole(1)
  /\ Beats(conn[1]) = 1 /\ conn[1].writableEnded /\ ~conn[1].hb
  /\ conn[1].state = "streaming"

\* the handlers of consumer c that a record of transport t is delivered to
C38_HandlersOn(c, t) == {i \in DOMAIN listeners[c] : listeners[c][i] = t}

\* C38: a conformant consumer has at most one listener registered for its
\* event kind over all transports at any time, the one of its effect's last
\* run, so a record of any transport is delivered to it at most once.
C38_AtMostOneListener ==
  \A c \in Conformant :
    /\ Len(listeners[c]) <= 1
    /\ listeners[c] = IF boundTo[c] = NULL THEN << >> ELSE << boundTo[c] >>
    /\ \A t \in 1..Len(es) : Cardinality(C38_HandlersOn(c, t)) <= 1

\* after two reconnects each conformant consumer has one listener, on the
\* third transport, and a record of that transport was delivered to both
C38_Witness ==
  /\ Len(es) = 3 /\ eventSourceRef = 3
  /\ \A c \in Conformant : listeners[c] = << 3 >>
  /\ dispatch.t = 3 /\ dispatch.to # {}

\* C39: every retry delay scheduled, in any reachable state, is a whole
\* number of milliseconds between 1000 and 30000 inclusive.
C39_RetryDelayWithinBounds ==
  \A tm \in timers : tm.delay \in 1000..30000

\* the next event to be handled is an error of a transport that is not the
\* current one
C40_StaleError ==
  /\ queue # << >> /\ Head1.type = "error"
  /\ Head1.t # eventSourceRef

\* C40: an error event of a transport already replaced or closed finds that
\* transport closed, and handling it does not change the handle, does not
\* close or unreference another transport and does not schedule a retry.
C40_StaleErrorIsIgnored ==
  [][ (C40_StaleError /\ queue' = Tail(queue)) =>
        /\ es[Head1.t] = CLOSED
        /\ UNCHANGED << eventSourceRef, es, timers, retryTimerRef,
                        attemptCountRef, instanceId >>
        /\ (eventSourceRef # NULL => LiveTransports' = {eventSourceRef'}) ]_vars

\* a newer transport is live and referenced while the error event of the
\* transport it replaced is the next to be handled
C40_Witness ==
  /\ C40_StaleError
  /\ eventSourceRef # NULL /\ eventSourceRef > Head1.t
  /\ es[eventSourceRef] # CLOSED

====
